---- MODULE Spec2Model ----
(***************************************************************************)
(* The concurrency workshop of go-workshops                                *)
(* (src/concurrency/concurrency_test.go) as a state machine.               *)
(*                                                                         *)
(* The file holds independent programs: the RateLimiter and NumberIterator *)
(* types, driven through their methods, and the test functions that start  *)
(* goroutines.  `prog` says which of them is running; it is chosen in Init *)
(* and never changes, the way `go test -run X` runs one of them.  The      *)
(* variables of the programs that are not running keep their initial      *)
(* values.                                                                 *)
(***************************************************************************)
EXTENDS Integers, Sequences, FiniteSets, TLC

VARIABLES
    prog,           \* the program that is running
    \* ---- RateLimiter (lines 322-360)
    rlCapacity,     \* r.capacity
    rlCounter,      \* r.counter, an atomic.Int32
    rlCtxDone,      \* r.ctx is cancelled (Close was called)
    rlGranted,      \* history: calls to Allow that returned true since the last reset
    rlDenied,       \* history: a call to Allow returned false since the last reset
    rlSlept,        \* history: a refill interval passed after a denial, no Allow since
    rlLast,         \* history: "allowed" or "denied", the latest Allow's result ("none" before it)
    rlLastAfterSleep, \* history: the latest Allow was the first one after such an interval
    rlCalls,        \* history: number of single Allow steps taken (bounded)
    \* ---- TestDeadlock and EatPasta (lines 112-140)
    mtx,            \* sync.Mutex state of fork and spoon: "free" or the goroutine holding it
    epPc,           \* where each EatPasta goroutine is
    epIdx,          \* EatPasta's loop index i: cutlery items it has been through
    epDefers,       \* EatPasta's stack of deferred c.Unlock() calls
    tdPc,           \* where TestDeadlock is: "select", "fatal" (t.Fatal) or "done"
    tdI,            \* TestDeadlock's loop counter i
    tdResults,      \* the results TestDeadlock received, in order
    \* ---- TestAtomacity (lines 89-106)
    taPc,           \* where TestAtomacity is: "loop", "wait", "check", "done"
    taI,            \* its loop counter i
    taCounter,      \* counter
    taWg,           \* the WaitGroup's count
    taG,            \* where each spawned goroutine is
    taTmp,          \* the value each goroutine read from counter, for counter++
    taFailed,       \* t.Errorf was called
    \* ---- TestSemaphoreWithChannels (lines 270-291)
    swPc,           \* where the test is: "loop", "wait", "done"
    swI,            \* its loop counter i
    swC,            \* c, an atomic.Int32
    swWg,           \* the WaitGroup's count
    swW,            \* where each worker goroutine is
    swVal,          \* each worker's val, the result of c.Add(1)
    swFailed,       \* t.Error was called
    \* ---- NumberIterator (lines 182-212) and its callers
    niCtxDone,      \* ni.ctx is cancelled
    niRequests,     \* ni.requests: the response channels senders are offering on it
    niRunPc,        \* where the goroutine of Run is
    niCounter,      \* Run's counter
    niRespChan,     \* Run's respChan
    niCalls,        \* history: the calls of Next made so far, with what they returned
    \* ---- goroutines that use ni.requests as Run expects (lines 203-207)
    rqPc,           \* where each requester is
    rqCap,          \* the capacity of the response channel it made
    rqBuf,          \* the number buffered in its response channel (0: none)
    rqGot,          \* the number it received (0: none)
    \* ---- TestForkJoin (lines 28-43)
    fjChildPc,      \* where the child goroutine is
    fjParentPc,     \* where the test is
    fjDoneClosed,   \* done is closed
    fjTimer,        \* the channel of time.After(time.Millisecond)
    \* ---- TestParrentControl (lines 48-68)
    ctlChildPc,     \* where the child goroutine is
    ctlParentPc,    \* where the test is
    ctlCtxDone,     \* the context of context.WithCancel is cancelled
    ctlDoneClosed,  \* done is closed
    ctlNow,         \* the time, in milliseconds since the test began
    ctlChildAt,     \* when the child's time.After(10 * time.Second) fires (-1: not created)
    ctlParentAt,    \* when the test's time.After(time.Millisecond) fires (-1: not created)
    \* ---- package errorhandling (src/unnamed/part_001, src/errorhandling/errors.go)
    ehOp,           \* the function called last ("none" before the first call)
    ehArgs,         \* its arguments, by name
    ehResult,       \* what it returned
    ehStdout,       \* what the example that ran last printed, line by line
    elPc,           \* where ExampleLoggingErrors is
    elErr,          \* its variable err
    elDeferred,     \* the arguments of its deferred calls, evaluated at the defer statement
    elStdout        \* what it printed

rlVars == <<rlCapacity, rlCounter, rlCtxDone, rlGranted, rlDenied, rlSlept,
            rlLast, rlLastAfterSleep, rlCalls>>

tdVars == <<mtx, epPc, epIdx, epDefers, tdPc, tdI, tdResults>>

taVars == <<taPc, taI, taCounter, taWg, taG, taTmp, taFailed>>

swVars == <<swPc, swI, swC, swWg, swW, swVal, swFailed>>

niVars == <<niCtxDone, niRequests, niRunPc, niCounter, niRespChan, niCalls>>

rqVars == <<rqPc, rqCap, rqBuf, rqGot>>

fjVars == <<fjChildPc, fjParentPc, fjDoneClosed, fjTimer>>

ctlVars == <<ctlChildPc, ctlParentPc, ctlCtxDone, ctlDoneClosed, ctlNow,
             ctlChildAt, ctlParentAt>>

ehVars == <<ehOp, ehArgs, ehResult, ehStdout, elPc, elErr, elDeferred, elStdout>>

vars == <<prog, rlVars, tdVars, taVars, swVars, niVars, rqVars, fjVars, ctlVars, ehVars>>

\* What a step of one program leaves alone: the variables of the others.
rlOnly == UNCHANGED <<prog, tdVars, taVars, swVars, niVars, fjVars, ctlVars, ehVars, rqVars>>
tdOnly == UNCHANGED <<prog, rlVars, taVars, swVars, niVars, fjVars, ctlVars, ehVars, rqVars>>
taOnly == UNCHANGED <<prog, rlVars, tdVars, swVars, niVars, fjVars, ctlVars, ehVars, rqVars>>
swOnly == UNCHANGED <<prog, rlVars, tdVars, taVars, niVars, fjVars, ctlVars, ehVars, rqVars>>
niOnly == UNCHANGED <<prog, rlVars, tdVars, taVars, swVars, fjVars, ctlVars, ehVars>>
fjOnly == UNCHANGED <<prog, rlVars, tdVars, taVars, swVars, niVars, ctlVars, ehVars, rqVars>>
ctlOnly == UNCHANGED <<prog, rlVars, tdVars, taVars, swVars, niVars, fjVars, ehVars, rqVars>>
ehOnly == UNCHANGED <<prog, rlVars, tdVars, taVars, swVars, niVars, fjVars, ctlVars, rqVars>>

(***************************************************************************)
(* Bounds of the model.                                                    *)
(***************************************************************************)
MaxCapacity == 3        \* capacities 1..MaxCapacity are tried (the test uses 3)
MaxAllowCalls == 7      \* single Allow steps explored per run
BurstSlack == 1         \* a burst of denied calls stops 0..BurstSlack short of MaxInt32

(***************************************************************************)
(* int32 arithmetic, as sync/atomic's Int32 does it (two's complement).    *)
(***************************************************************************)
MaxInt32 == 2147483647
MinInt32 == -MaxInt32 - 1

\* atomic.Int32.Add(1): the new value, wrapping at the width of int32.
AddOne32(c) == IF c = MaxInt32 THEN MinInt32 ELSE c + 1

(***************************************************************************)
(* RateLimiter                                                             *)
(***************************************************************************)

\* NewRateLimiter(ctx, capacity): a zero counter and a cancellable context.
\* It starts no goroutine: bucketRefiller is not launched here.
NewRateLimiter(capacity) ==
    /\ rlCapacity = capacity
    /\ rlCounter = 0
    /\ rlCtxDone = FALSE

\* What r.counter.Add(1) <= r.capacity evaluates to, given the counter before.
AllowResult(counter, capacity) == AddOne32(counter) <= capacity

\* func (r *RateLimiter) Allow() bool: one call.
Allow ==
    /\ prog = "RateLimiter"
    /\ rlCalls < MaxAllowCalls
    /\ LET ok == AllowResult(rlCounter, rlCapacity) IN
         /\ rlCounter' = AddOne32(rlCounter)
         /\ rlLast' = IF ok THEN "allowed" ELSE "denied"
         /\ rlGranted' = IF ok THEN rlGranted + 1 ELSE rlGranted
         /\ rlDenied' = (rlDenied \/ ~ok)
    /\ rlLastAfterSleep' = rlSlept
    /\ rlSlept' = FALSE
    /\ rlCalls' = rlCalls + 1
    /\ rlOnly
    /\ UNCHANGED <<rlCapacity, rlCtxDone>>

\* n calls of Allow in a row, while the counter stays in capacity+1..MaxInt32:
\* each of them adds one and returns false (AllowResult is FALSE on that range),
\* so only the counter moves.  It stands for a caller that keeps asking.
AllowBurst ==
    /\ prog = "RateLimiter"
    /\ rlLast = "denied"
    /\ rlCounter >= rlCapacity
    /\ \E d \in 0..BurstSlack :
         LET n == (MaxInt32 - d) - rlCounter IN
           /\ n > 0
           /\ rlCounter' = rlCounter + n
    /\ rlLastAfterSleep' = FALSE
    /\ rlSlept' = FALSE
    /\ rlOnly
    /\ UNCHANGED <<rlCapacity, rlCtxDone, rlGranted, rlDenied, rlLast, rlCalls>>

\* time.Sleep(1 * time.Millisecond) by the caller after a denial: one refill
\* interval passes.  No goroutine runs bucketRefiller, so nothing else happens.
SleepInterval ==
    /\ prog = "RateLimiter"
    /\ rlDenied
    /\ ~rlSlept
    /\ rlSlept' = TRUE
    /\ rlOnly
    /\ UNCHANGED <<rlCapacity, rlCounter, rlCtxDone, rlGranted, rlDenied,
                   rlLast, rlLastAfterSleep, rlCalls>>

\* func (r *RateLimiter) Close(): cancels r.ctx.
Close ==
    /\ prog = "RateLimiter"
    /\ ~rlCtxDone
    /\ rlCtxDone' = TRUE
    /\ rlOnly
    /\ UNCHANGED <<rlCapacity, rlCounter, rlGranted, rlDenied, rlSlept,
                   rlLast, rlLastAfterSleep, rlCalls>>

\* func (r *RateLimiter) bucketRefiller(): the t.C branch of its loop, one tick.
\* It is a step of a goroutine running bucketRefiller.  The program has no
\* `go r.bucketRefiller()` (nor any other call of it), so no such goroutine
\* exists and this step is not a disjunct of Next.
bucketRefiller ==
    /\ prog = "RateLimiter"
    /\ ~rlCtxDone
    /\ rlCounter' = 0
    /\ rlGranted' = 0
    /\ rlDenied' = FALSE
    /\ rlSlept' = FALSE
    /\ rlOnly
    /\ UNCHANGED <<rlCapacity, rlCtxDone, rlLast, rlLastAfterSleep, rlCalls>>

rlIdle ==
    /\ rlCapacity = 0
    /\ rlCounter = 0
    /\ rlCtxDone = FALSE

rlInit ==
    /\ IF prog = "RateLimiter"
         THEN \E c \in 1..MaxCapacity : NewRateLimiter(c)
         ELSE rlIdle
    /\ rlGranted = 0
    /\ rlDenied = FALSE
    /\ rlSlept = FALSE
    /\ rlLast = "none"
    /\ rlLastAfterSleep = FALSE
    /\ rlCalls = 0

rlNext == Allow \/ AllowBurst \/ SleepInterval \/ Close

(***************************************************************************)
(* TestDeadlock and EatPasta (lines 112-140)                               *)
(***************************************************************************)
Eaters == {"Plato", "Socrates"}
Mutexes == {"fork", "spoon"}

\* The cutlery arguments of the two `go EatPasta(...)` statements.
Cutlery(e) == IF e = "Plato" THEN <<"fork", "spoon">> ELSE <<"spoon", "fork">>

\* The loop of TestDeadlock runs for i < 2.
ExpectedResults == 2

\* c.Lock() on the next item of cutlery: blocks while the mutex is held.
EatPastaLock(e) ==
    /\ prog = "TestDeadlock"
    /\ epPc[e] = "lock"
    /\ LET c == Cutlery(e)[epIdx[e] + 1] IN
         /\ mtx[c] = "free"
         /\ mtx' = [mtx EXCEPT ![c] = e]
    /\ epPc' = [epPc EXCEPT ![e] = "sleep"]
    /\ tdOnly
    /\ UNCHANGED <<epIdx, epDefers, tdPc, tdI, tdResults>>

\* t.Logf, time.Sleep(time.Microsecond), defer c.Unlock(), and the loop's next
\* iteration or its end.
EatPastaSleep(e) ==
    /\ prog = "TestDeadlock"
    /\ epPc[e] = "sleep"
    /\ LET c == Cutlery(e)[epIdx[e] + 1] IN
         epDefers' = [epDefers EXCEPT ![e] = Append(@, c)]
    /\ epIdx' = [epIdx EXCEPT ![e] = @ + 1]
    /\ epPc' = [epPc EXCEPT ![e] =
                  IF epIdx[e] + 1 = Len(Cutlery(e)) THEN "send" ELSE "lock"]
    /\ tdOnly
    /\ UNCHANGED <<mtx, tdPc, tdI, tdResults>>

\* result <- name + " is done eating pasta" meeting `case res := <-results`:
\* the channel is unbuffered, so the send and the receive are one step.
EatPastaSend(e) ==
    /\ prog = "TestDeadlock"
    /\ epPc[e] = "send"
    /\ tdPc = "select"
    /\ tdResults' = Append(tdResults, e)
    /\ tdI' = tdI + 1
    /\ tdPc' = IF tdI + 1 = ExpectedResults THEN "done" ELSE "select"
    /\ epPc' = [epPc EXCEPT ![e] = "unlock"]
    /\ tdOnly
    /\ UNCHANGED <<mtx, epIdx, epDefers>>

\* EatPasta as it would return had it locked without `defer c.Unlock()`:
\* nothing is unlocked on the way out.
EatPastaReturnsLocked(e) ==
    /\ prog = "TestDeadlock"
    /\ epPc[e] = "unlock"
    /\ epDefers' = [epDefers EXCEPT ![e] = <<>>]
    /\ epPc' = [epPc EXCEPT ![e] = "returned"]
    /\ tdOnly
    /\ UNCHANGED <<mtx, epIdx, tdPc, tdI, tdResults>>

\* EatPasta returns: its deferred c.Unlock() calls run, last deferred first.
EatPastaUnlock(e) ==
    /\ prog = "TestDeadlock"
    /\ epPc[e] = "unlock"
    /\ LET n == Len(epDefers[e]) IN
         /\ mtx' = [mtx EXCEPT ![epDefers[e][n]] = "free"]
         /\ epDefers' = [epDefers EXCEPT ![e] = SubSeq(@, 1, n - 1)]
         /\ epPc' = [epPc EXCEPT ![e] = IF n = 1 THEN "returned" ELSE "unlock"]
    /\ tdOnly
    /\ UNCHANGED <<epIdx, tdPc, tdI, tdResults>>

\* An EatPasta goroutine that can take a step on its own.
EaterCanMove(e) ==
    \/ epPc[e] = "lock" /\ mtx[Cutlery(e)[epIdx[e] + 1]] = "free"
    \/ epPc[e] \in {"sleep", "unlock"}

\* case <-time.After(1 * time.Second): t.Fatal.  A second is long against the
\* microsecond sleeps of EatPasta: the timer fires only when no result is on
\* offer and no EatPasta goroutine can move.
TestDeadlockTimeout ==
    /\ prog = "TestDeadlock"
    /\ tdPc = "select"
    /\ \A e \in Eaters : epPc[e] # "send" /\ ~EaterCanMove(e)
    /\ tdPc' = "fatal"
    /\ tdOnly
    /\ UNCHANGED <<mtx, epPc, epIdx, epDefers, tdI, tdResults>>

tdInit ==
    /\ mtx = [m \in Mutexes |-> "free"]
    /\ epPc = [e \in Eaters |-> "lock"]
    /\ epIdx = [e \in Eaters |-> 0]
    /\ epDefers = [e \in Eaters |-> <<>>]
    /\ tdPc = "select"
    /\ tdI = 0
    /\ tdResults = <<>>

tdNext ==
    \/ \E e \in Eaters :
         EatPastaLock(e) \/ EatPastaSleep(e) \/ EatPastaSend(e) \/ EatPastaUnlock(e)
    \/ TestDeadlockTimeout

(***************************************************************************)
(* TestAtomacity (lines 89-106)                                            *)
(***************************************************************************)
\* The number of goroutines TestAtomacity starts (1000 in the source).
NumIncrements == 3

Incrementers == 1..NumIncrements

\* wg.Add(1); go func() {...}(): one iteration of the loop.
TestAtomacitySpawn ==
    /\ prog = "TestAtomacity"
    /\ taPc = "loop"
    /\ taI < NumIncrements
    /\ taWg' = taWg + 1
    /\ taG' = [taG EXCEPT ![taI + 1] = "read"]
    /\ taI' = taI + 1
    /\ taPc' = IF taI + 1 = NumIncrements THEN "wait" ELSE "loop"
    /\ taOnly
    /\ UNCHANGED <<taCounter, taTmp, taFailed>>

\* counter++ is a load of counter ...
IncrementRead(g) ==
    /\ prog = "TestAtomacity"
    /\ taG[g] = "read"
    /\ taTmp' = [taTmp EXCEPT ![g] = taCounter]
    /\ taG' = [taG EXCEPT ![g] = "write"]
    /\ taOnly
    /\ UNCHANGED <<taPc, taI, taCounter, taWg, taFailed>>

\* ... and a store of the loaded value plus one.
IncrementWrite(g) ==
    /\ prog = "TestAtomacity"
    /\ taG[g] = "write"
    /\ taCounter' = taTmp[g] + 1
    /\ taG' = [taG EXCEPT ![g] = "done"]
    /\ taOnly
    /\ UNCHANGED <<taPc, taI, taWg, taTmp, taFailed>>

\* The deferred wg.Done().
IncrementDone(g) ==
    /\ prog = "TestAtomacity"
    /\ taG[g] = "done"
    /\ taWg' = taWg - 1
    /\ taG' = [taG EXCEPT ![g] = "exited"]
    /\ taOnly
    /\ UNCHANGED <<taPc, taI, taCounter, taTmp, taFailed>>

\* wg.Wait() returns once the count is zero.
TestAtomacityWait ==
    /\ prog = "TestAtomacity"
    /\ taPc = "wait"
    /\ taWg = 0
    /\ taPc' = "check"
    /\ taOnly
    /\ UNCHANGED <<taI, taCounter, taWg, taG, taTmp, taFailed>>

\* if counter != 1000 { t.Errorf(...) }
TestAtomacityCheck ==
    /\ prog = "TestAtomacity"
    /\ taPc = "check"
    /\ taFailed' = (taCounter # NumIncrements)
    /\ taPc' = "done"
    /\ taOnly
    /\ UNCHANGED <<taI, taCounter, taWg, taG, taTmp>>

taInit ==
    /\ taPc = "loop"
    /\ taI = 0
    /\ taCounter = 0
    /\ taWg = 0
    /\ taG = [g \in Incrementers |-> "unspawned"]
    /\ taTmp = [g \in Incrementers |-> 0]
    /\ taFailed = FALSE

taNext ==
    \/ TestAtomacitySpawn
    \/ \E g \in Incrementers : IncrementRead(g) \/ IncrementWrite(g) \/ IncrementDone(g)
    \/ TestAtomacityWait
    \/ TestAtomacityCheck

(***************************************************************************)
(* TestSemaphoreWithChannels (lines 270-291)                               *)
(***************************************************************************)

\* The number of worker goroutines the test starts (10 in the source).
NumWorkers == 4

\* The limit of `if val > 3`.
ConcurrencyLimit == 3

Workers == 1..NumWorkers

\* atomic.Int32.Add(-1): the new value, wrapping at the width of int32.
SubOne32(c) == IF c = MinInt32 THEN MaxInt32 ELSE c - 1

\* wg.Add(1); go func() {...}(): one iteration of the loop.
TestSemaphoreSpawn ==
    /\ prog = "TestSemaphoreWithChannels"
    /\ swPc = "loop"
    /\ swI < NumWorkers
    /\ swWg' = swWg + 1
    /\ swW' = [swW EXCEPT ![swI + 1] = "add"]
    /\ swI' = swI + 1
    /\ swPc' = IF swI + 1 = NumWorkers THEN "wait" ELSE "loop"
    /\ swOnly
    /\ UNCHANGED <<swC, swVal, swFailed>>

\* val := c.Add(1); defer c.Add(-1).  Nothing is acquired before it.
WorkerAdd(w) ==
    /\ prog = "TestSemaphoreWithChannels"
    /\ swW[w] = "add"
    /\ swC' = AddOne32(swC)
    /\ swVal' = [swVal EXCEPT ![w] = AddOne32(swC)]
    /\ swW' = [swW EXCEPT ![w] = "sleep"]
    /\ swOnly
    /\ UNCHANGED <<swPc, swI, swWg, swFailed>>

\* time.Sleep(1 * time.Millisecond)
WorkerSleep(w) ==
    /\ prog = "TestSemaphoreWithChannels"
    /\ swW[w] = "sleep"
    /\ swW' = [swW EXCEPT ![w] = "check"]
    /\ swOnly
    /\ UNCHANGED <<swPc, swI, swC, swWg, swVal, swFailed>>

\* if val > 3 { t.Error(...) }
WorkerCheck(w) ==
    /\ prog = "TestSemaphoreWithChannels"
    /\ swW[w] = "check"
    /\ swFailed' = (swFailed \/ swVal[w] > ConcurrencyLimit)
    /\ swW' = [swW EXCEPT ![w] = "release"]
    /\ swOnly
    /\ UNCHANGED <<swPc, swI, swC, swWg, swVal>>

\* The deferred c.Add(-1), the first of the two deferred calls to run.
WorkerRelease(w) ==
    /\ prog = "TestSemaphoreWithChannels"
    /\ swW[w] = "release"
    /\ swC' = SubOne32(swC)
    /\ swW' = [swW EXCEPT ![w] = "done"]
    /\ swOnly
    /\ UNCHANGED <<swPc, swI, swWg, swVal, swFailed>>

\* The deferred wg.Done().
WorkerDone(w) ==
    /\ prog = "TestSemaphoreWithChannels"
    /\ swW[w] = "done"
    /\ swWg' = swWg - 1
    /\ swW' = [swW EXCEPT ![w] = "exited"]
    /\ swOnly
    /\ UNCHANGED <<swPc, swI, swC, swVal, swFailed>>

\* wg.Wait() returns once the count is zero; the test ends.
TestSemaphoreWait ==
    /\ prog = "TestSemaphoreWithChannels"
    /\ swPc = "wait"
    /\ swWg = 0
    /\ swPc' = "done"
    /\ swOnly
    /\ UNCHANGED <<swI, swC, swWg, swW, swVal, swFailed>>

swInit ==
    /\ swPc = "loop"
    /\ swI = 0
    /\ swC = 0
    /\ swWg = 0
    /\ swW = [w \in Workers |-> "unspawned"]
    /\ swVal = [w \in Workers |-> 0]
    /\ swFailed = FALSE

swNext ==
    \/ TestSemaphoreSpawn
    \/ \E w \in Workers :
         \/ WorkerAdd(w)
         \/ WorkerSleep(w)
         \/ WorkerCheck(w)
         \/ WorkerRelease(w)
         \/ WorkerDone(w)
    \/ TestSemaphoreWait

(***************************************************************************)
(* NumberIterator (lines 182-212), called as TestChanOfChan and            *)
(* TestDefaultCase call it (lines 214-263)                                 *)
(***************************************************************************)

\* Calls of Next explored per run.
MaxNextCalls == 3

\* The contexts the tests pass to Next: ctx, which is also ni.ctx, and
\* canceledCtx, cancelled before it is used (lines 243-244).
CallerContexts == {"ctx", "canceledCtx"}

CtxIsDone(c) == IF c = "canceledCtx" THEN TRUE ELSE niCtxDone

\* NewNumberIterator(ctx): an unbuffered requests channel, nothing offered on it.
NewNumberIterator ==
    /\ niRequests = <<>>
    /\ niCtxDone = FALSE

\* func (ni *NumberIterator) Next(ctx context.Context) (int, error): what it
\* returns.  Its body is `return 0, nil`: it reads neither ctx nor ni.
NextResult(ctxDone) == [num |-> 0, err |-> "nil"]

\* Goroutines that may ask Run for a number over ni.requests.  The program
\* has none: Next makes no response channel and sends none.
MaxRequesters == 2

Requesters == 1..MaxRequesters

\* The goroutines blocked receiving on the response channel they sent.
Receivers == {r \in Requesters : rqPc[r] = "waiting"}

\* `respChan <- counter` can proceed: respChan is unbuffered and a receiver
\* is waiting on it, or it is buffered and has room (Run sends on it once).
RespChanReady(r) ==
    \/ rqCap[r] = 0 /\ r \in Receivers
    \/ rqCap[r] > 0 /\ rqBuf[r] = 0

\* One call of Next by the test, with the context c.  The call touches no
\* state of the iterator; niCalls records it.
NumberIteratorNext(c) ==
    /\ prog = "NumberIterator"
    /\ Len(niCalls) < MaxNextCalls
    /\ LET r == NextResult(CtxIsDone(c)) IN
         niCalls' = Append(niCalls,
                           [ctx |-> c,
                            ctxDone |-> CtxIsDone(c),
                            running |-> (niRunPc \in {"select", "respond"} /\ ~niCtxDone),
                            num |-> r.num,
                            err |-> r.err])
    /\ niOnly
    /\ UNCHANGED <<niCtxDone, niRequests, niRunPc, niCounter, niRespChan, rqVars>>

\* go ni.Run(), and Run's `counter := 0`.
GoRun ==
    /\ prog = "NumberIterator"
    /\ niRunPc = "notStarted"
    /\ niRunPc' = "select"
    /\ niCounter' = 0
    /\ niOnly
    /\ UNCHANGED <<niCtxDone, niRequests, niRespChan, niCalls, rqVars>>

\* The cases of Run's select that can proceed.
RunReady ==
    (IF niRequests # <<>> THEN {"request"} ELSE {})
        \cup (IF niCtxDone THEN {"done"} ELSE {})

\* func (ni *NumberIterator) Run(): one step of its loop.  At the select it
\* takes a case that is ready: a request (the sender's send completes; Run
\* sleeps, counts and goes on to answer) or ni.ctx.Done() (then it returns).
\* At `respChan <- counter` it waits until the send can proceed; that
\* statement has no case for ni.ctx.Done().
Run ==
    /\ prog = "NumberIterator"
    /\ IF niRunPc = "select"
         THEN \E branch \in RunReady :
                IF branch = "request"
                  THEN /\ niRespChan' = Head(niRequests)
                       /\ niRequests' = Tail(niRequests)
                       /\ rqPc' = [rqPc EXCEPT ![Head(niRequests)] = "waiting"]
                       /\ niCounter' = niCounter + 1
                       /\ niRunPc' = "respond"
                       /\ UNCHANGED <<rqCap, rqBuf, rqGot>>
                  ELSE /\ niRunPc' = "returned"
                       /\ UNCHANGED <<niRequests, niCounter, niRespChan, rqVars>>
         ELSE /\ niRunPc = "respond"
              /\ RespChanReady(niRespChan)
              /\ IF rqCap[niRespChan] = 0
                   THEN /\ rqGot' = [rqGot EXCEPT ![niRespChan] = niCounter]
                        /\ rqPc' = [rqPc EXCEPT ![niRespChan] = "got"]
                        /\ UNCHANGED <<rqCap, rqBuf>>
                   ELSE /\ rqBuf' = [rqBuf EXCEPT ![niRespChan] = niCounter]
                        /\ UNCHANGED <<rqPc, rqCap, rqGot>>
              /\ niRunPc' = "select"
              /\ UNCHANGED <<niRequests, niCounter, niRespChan>>
    /\ niOnly
    /\ UNCHANGED <<niCtxDone, niCalls>>

\* The deferred cancel() of the test (lines 216, 238): ni.ctx is cancelled.
CancelCtx ==
    /\ prog = "NumberIterator"
    /\ ~niCtxDone
    /\ niCtxDone' = TRUE
    /\ niOnly
    /\ UNCHANGED <<niRequests, niRunPc, niCounter, niRespChan, niCalls, rqVars>>

niInit ==
    /\ NewNumberIterator
    /\ niRunPc = "notStarted"
    /\ niCounter = 0
    /\ niRespChan = 0
    /\ niCalls = <<>>

\* A requester makes a response channel of capacity cap and starts
\* `ni.requests <- respChan`, the send that Run's first case receives.
RequesterSend(r, cap) ==
    /\ prog = "NumberIterator"
    /\ rqPc[r] = "idle"
    /\ rqPc' = [rqPc EXCEPT ![r] = "sending"]
    /\ rqCap' = [rqCap EXCEPT ![r] = cap]
    /\ niRequests' = Append(niRequests, r)
    /\ niOnly
    /\ UNCHANGED <<niCtxDone, niRunPc, niCounter, niRespChan, niCalls, rqBuf, rqGot>>

\* A requester whose channel Run has taken stops waiting for the answer (its
\* own context is cancelled, as the canceledCtx of TestChanOfChan is).
RequesterGiveUp(r) ==
    /\ prog = "NumberIterator"
    /\ rqPc[r] = "waiting"
    /\ rqPc' = [rqPc EXCEPT ![r] = "gone"]
    /\ niOnly
    /\ UNCHANGED <<niVars, rqCap, rqBuf, rqGot>>

\* A waiting requester takes the answer Run left in its buffered channel.
RequesterReceive(r) ==
    /\ prog = "NumberIterator"
    /\ rqPc[r] = "waiting"
    /\ rqBuf[r] # 0
    /\ rqGot' = [rqGot EXCEPT ![r] = rqBuf[r]]
    /\ rqBuf' = [rqBuf EXCEPT ![r] = 0]
    /\ rqPc' = [rqPc EXCEPT ![r] = "got"]
    /\ niOnly
    /\ UNCHANGED <<niVars, rqCap>>

rqInit ==
    /\ rqPc = [r \in Requesters |-> "idle"]
    /\ rqCap = [r \in Requesters |-> 0]
    /\ rqBuf = [r \in Requesters |-> 0]
    /\ rqGot = [r \in Requesters |-> 0]

niNext ==
    \/ \E c \in CallerContexts : NumberIteratorNext(c)
    \/ GoRun
    \/ Run
    \/ CancelCtx

(***************************************************************************)
(* TestForkJoin (lines 28-43)                                              *)
(***************************************************************************)

\* go func() { t.Log("Child goroutine") }()
ForkJoinGo ==
    /\ prog = "TestForkJoin"
    /\ fjParentPc = "go"
    /\ fjChildPc' = "log"
    /\ fjParentPc' = "log"
    /\ fjOnly
    /\ UNCHANGED <<fjDoneClosed, fjTimer>>

\* The child: t.Log("Child goroutine"), and its function returns.
ForkJoinChild ==
    /\ prog = "TestForkJoin"
    /\ fjChildPc = "log"
    /\ fjChildPc' = "exited"
    /\ fjOnly
    /\ UNCHANGED <<fjParentPc, fjDoneClosed, fjTimer>>

\* t.Log("Parent goroutine"), then the select is entered: time.After starts
\* its timer.
ForkJoinParentLog ==
    /\ prog = "TestForkJoin"
    /\ fjParentPc = "log"
    /\ fjParentPc' = "select"
    /\ fjTimer' = "armed"
    /\ fjOnly
    /\ UNCHANGED <<fjChildPc, fjDoneClosed>>

\* A millisecond passes: the timer's channel becomes readable.
ForkJoinTimer ==
    /\ prog = "TestForkJoin"
    /\ fjTimer = "armed"
    /\ fjTimer' = "fired"
    /\ fjOnly
    /\ UNCHANGED <<fjChildPc, fjParentPc, fjDoneClosed>>

\* The cases of the select that can proceed.
ForkJoinReady ==
    (IF fjDoneClosed THEN {"joined"} ELSE {})
        \cup (IF fjTimer = "fired" THEN {"timeout"} ELSE {})

\* select { case <-done: ...  case <-time.After(time.Millisecond): t.Errorf }
ForkJoinSelect ==
    /\ prog = "TestForkJoin"
    /\ fjParentPc = "select"
    /\ \E branch \in ForkJoinReady : fjParentPc' = branch
    /\ fjOnly
    /\ UNCHANGED <<fjChildPc, fjDoneClosed, fjTimer>>

fjInit ==
    /\ fjChildPc = "unspawned"
    /\ fjParentPc = "go"
    /\ fjDoneClosed = FALSE
    /\ fjTimer = "unset"

fjNext ==
    \/ ForkJoinGo
    \/ ForkJoinChild
    \/ ForkJoinParentLog
    \/ ForkJoinTimer
    \/ ForkJoinSelect

(***************************************************************************)
(* TestParrentControl (lines 48-68)                                        *)
(***************************************************************************)

\* 10 * time.Second and time.Millisecond, in milliseconds.
ChildDelayMs == 10000
ParentTimeoutMs == 1

\* go func() {...}()
ParentControlGo ==
    /\ prog = "TestParrentControl"
    /\ ctlParentPc = "go"
    /\ ctlChildPc' = "log"
    /\ ctlParentPc' = "cancel"
    /\ ctlOnly
    /\ UNCHANGED <<ctlCtxDone, ctlDoneClosed, ctlNow, ctlChildAt, ctlParentAt>>

\* The child: t.Log, then time.After(10 * time.Second) starts its timer.
ParentControlChildLog ==
    /\ prog = "TestParrentControl"
    /\ ctlChildPc = "log"
    /\ ctlChildPc' = "wait"
    /\ ctlChildAt' = ctlNow + ChildDelayMs
    /\ ctlOnly
    /\ UNCHANGED <<ctlParentPc, ctlCtxDone, ctlDoneClosed, ctlNow, ctlParentAt>>

\* The child: <-time.After(10 * time.Second) returns once the timer has fired.
\* The child holds no context: the one WithCancel returned went to `_`.
ParentControlChildWait ==
    /\ prog = "TestParrentControl"
    /\ ctlChildPc = "wait"
    /\ ctlNow >= ctlChildAt
    /\ ctlChildPc' = "close"
    /\ ctlOnly
    /\ UNCHANGED <<ctlParentPc, ctlCtxDone, ctlDoneClosed, ctlNow, ctlChildAt, ctlParentAt>>

\* The child: close(done), and its function returns.
ParentControlChildClose ==
    /\ prog = "TestParrentControl"
    /\ ctlChildPc = "close"
    /\ ctlDoneClosed' = TRUE
    /\ ctlChildPc' = "exited"
    /\ ctlOnly
    /\ UNCHANGED <<ctlParentPc, ctlCtxDone, ctlNow, ctlChildAt, ctlParentAt>>

\* t.Log, cancel(), then the select is entered: time.After starts its timer.
ParentControlCancel ==
    /\ prog = "TestParrentControl"
    /\ ctlParentPc = "cancel"
    /\ ctlCtxDone' = TRUE
    /\ ctlParentPc' = "select"
    /\ ctlParentAt' = ctlNow + ParentTimeoutMs
    /\ ctlOnly
    /\ UNCHANGED <<ctlChildPc, ctlDoneClosed, ctlNow, ctlChildAt>>

\* The cases of the select that can proceed.
ParentControlReady ==
    (IF ctlDoneClosed THEN {"joined"} ELSE {})
        \cup (IF ctlParentAt >= 0 /\ ctlNow >= ctlParentAt THEN {"timeout"} ELSE {})

\* select { case <-done: ...  case <-time.After(time.Millisecond): t.Errorf }
ParentControlSelect ==
    /\ prog = "TestParrentControl"
    /\ ctlParentPc = "select"
    /\ \E branch \in ParentControlReady : ctlParentPc' = branch
    /\ ctlOnly
    /\ UNCHANGED <<ctlChildPc, ctlCtxDone, ctlDoneClosed, ctlNow, ctlChildAt, ctlParentAt>>

\* The timers that have not fired yet.
PendingTimers == {d \in {ctlChildAt, ctlParentAt} : d > ctlNow}

\* Time passes, up to the next timer.
ParentControlTick ==
    /\ prog = "TestParrentControl"
    /\ PendingTimers # {}
    /\ ctlNow' = CHOOSE d \in PendingTimers : \A e \in PendingTimers : d <= e
    /\ ctlOnly
    /\ UNCHANGED <<ctlChildPc, ctlParentPc, ctlCtxDone, ctlDoneClosed, ctlChildAt, ctlParentAt>>

ctlInit ==
    /\ ctlChildPc = "unspawned"
    /\ ctlParentPc = "go"
    /\ ctlCtxDone = FALSE
    /\ ctlDoneClosed = FALSE
    /\ ctlNow = 0
    /\ ctlChildAt = -1
    /\ ctlParentAt = -1

ctlNext ==
    \/ ParentControlGo
    \/ ParentControlChildLog
    \/ ParentControlChildWait
    \/ ParentControlChildClose
    \/ ParentControlCancel
    \/ ParentControlSelect
    \/ ParentControlTick

(***************************************************************************)
(* package errorhandling (src/unnamed/part_001, src/errorhandling/errors.go)*)
(*                                                                         *)
(* A value of the interface type error is a pair: the dynamic type and the *)
(* value of that type.  The nil error has neither.  It is the only error   *)
(* that compares equal to nil: an interface holding a nil pointer of some  *)
(* type is not nil.                                                        *)
(***************************************************************************)
NilError == [type |-> "nil", value |-> "nil"]

\* err != nil, for err of type error.
ErrIsNil(err) == err = NilError

\* The conversion of a *InvalidClientError to error at `return err`: the
\* pointer, nil or not, becomes the value of an interface of that type.
InvalidClientErrorAsError(ptr) == [type |-> "*InvalidClientError", value |-> ptr]

\* errors.New(text)
ErrorsNew(text) == [type |-> "*errors.errorString", value |-> text]

\* The line fmt.Println("Error:", err) prints, as its operands.  For a nil
\* pointer in the interface fmt prints <nil>.
PrintlnError(err) == <<"Error:", IF err.value = "nil" THEN "<nil>" ELSE err.value>>

\* The limit of `client.Age < 18`.
AdultAge == 18

\* Clients tried: Name empty or not, Age (a uint16) around the limit and at its ends.
ClientNames == {"", "Vasia Pupkin"}
ClientAges == {0, AdultAge - 1, AdultAge, 42, 65535}

\* func ValidateClient(client Client) error.  The pointer err is nil unless a
\* branch assigns it; "nil" stands for the nil pointer, a message for a
\* pointer to an InvalidClientError with that Msg.
ValidateClient(name, age) ==
    LET err == IF name = "" THEN "name is required"
               ELSE IF age < AdultAge THEN "age should be greater than 18"
               ELSE "nil"
    IN  InvalidClientErrorAsError(err)

\* A call of ValidateClient, and the caller's `if err != nil { fmt.Println }`
\* (ExampleReturningNilInterface).
CallValidateClient(name, age) ==
    /\ prog = "errorhandling"
    /\ ehOp' = "ValidateClient"
    /\ ehArgs' = [name |-> name, age |-> age]
    /\ ehResult' = ValidateClient(name, age)
    /\ ehStdout' = IF ErrIsNil(ValidateClient(name, age))
                     THEN <<>>
                     ELSE <<PrintlnError(ValidateClient(name, age))>>
    /\ ehOnly
    /\ UNCHANGED <<elPc, elErr, elDeferred, elStdout>>

\* Divide is tried on the operands -MaxOperand..MaxOperand.
MaxOperand == 3

Operands == (-MaxOperand)..MaxOperand

Abs(x) == IF x < 0 THEN -x ELSE x

\* Go's a / b on integers, b not zero: the quotient truncated toward zero.
GoQuo(a, b) ==
    IF (a < 0) = (b < 0) THEN Abs(a) \div Abs(b) ELSE -(Abs(a) \div Abs(b))

\* func Divide(a, b int) (int, error) { return a / b, nil }.  An integer
\* division by zero is a run-time panic; otherwise the error is nil.
Divide(a, b) ==
    IF b = 0
      THEN [panicked |-> TRUE, val |-> 0, err |-> NilError]
      ELSE [panicked |-> FALSE, val |-> GoQuo(a, b), err |-> NilError]

\* A call of Divide (ExampleReturningValueAndError makes two).
CallDivide(a, b) ==
    /\ prog = "errorhandling"
    /\ ehOp' = "Divide"
    /\ ehArgs' = [a |-> a, b |-> b]
    /\ ehResult' = Divide(a, b)
    /\ ehStdout' = <<>>
    /\ ehOnly
    /\ UNCHANGED <<elPc, elErr, elDeferred, elStdout>>

\* The two types named *pgconn.PgError: the one errors.go imports and the one
\* the example's file imports.  Types of different packages are different
\* types, whatever their names and fields.
PgErrorOfGetUsers == "*github.com/jackc/pgx/v5/pgconn.PgError"
PgErrorOfExample == "*github.com/jackc/pgconn.PgError"

\* func GetUsers() error: a pointer to a PgError of the package errors.go imports.
GetUsers ==
    [type |-> PgErrorOfGetUsers,
     value |-> [Severity |-> "ERROR",
                Code |-> "42P01",
                Message |-> "relation \"users\" does not exist",
                Detail |-> "",
                Hint |-> ""]]

\* errors.As(err, &target) for a target of the pointer type targetType: err
\* matches when its dynamic type is targetType.  The error GetUsers returns
\* wraps no other error and has no As method, so nothing else is tried.
ErrorsAs(err, targetType) == err.type = targetType

\* ExampleHandllingDbError: what it prints.
HandllingDbErrorOutput(err) ==
    IF ~ErrIsNil(err) /\ ErrorsAs(err, PgErrorOfExample)
      THEN <<err.value.Message, err.value.Code>>
      ELSE <<>>

\* func ExampleHandllingDbError()
ExampleHandllingDbError ==
    /\ prog = "errorhandling"
    /\ ehOp' = "ExampleHandllingDbError"
    /\ ehArgs' = [none |-> TRUE]
    /\ ehResult' = GetUsers
    /\ ehStdout' = HandllingDbErrorOutput(GetUsers)
    /\ ehOnly
    /\ UNCHANGED <<elPc, elErr, elDeferred, elStdout>>

\* func logError(err error): what it prints.
logError(err) == IF ErrIsNil(err) THEN <<>> ELSE <<PrintlnError(err)>>

\* ExampleLoggingErrors: `var err error`.
LoggingErrorsDeclare ==
    /\ prog = "errorhandling"
    /\ elPc = "idle"
    /\ elErr' = NilError
    /\ elDeferred' = <<>>
    /\ elStdout' = <<>>
    /\ elPc' = "defer"
    /\ ehOnly
    /\ UNCHANGED <<ehOp, ehArgs, ehResult, ehStdout>>

\* `defer logError(err)`: the call is put off, its argument is evaluated now.
LoggingErrorsDefer ==
    /\ prog = "errorhandling"
    /\ elPc = "defer"
    /\ elDeferred' = Append(elDeferred, elErr)
    /\ elPc' = "assign"
    /\ ehOnly
    /\ UNCHANGED <<ehOp, ehArgs, ehResult, ehStdout, elErr, elStdout>>

\* `err = errors.New("something went wrong")`
LoggingErrorsAssign ==
    /\ prog = "errorhandling"
    /\ elPc = "assign"
    /\ elErr' = ErrorsNew("something went wrong")
    /\ elPc' = "return"
    /\ ehOnly
    /\ UNCHANGED <<ehOp, ehArgs, ehResult, ehStdout, elDeferred, elStdout>>

\* The function returns: the deferred logError runs with the argument it was
\* given at the defer statement.
LoggingErrorsReturn ==
    /\ prog = "errorhandling"
    /\ elPc = "return"
    /\ elStdout' = logError(elDeferred[Len(elDeferred)])
    /\ elDeferred' = SubSeq(elDeferred, 1, Len(elDeferred) - 1)
    /\ elPc' = "done"
    /\ ehOnly
    /\ UNCHANGED <<ehOp, ehArgs, ehResult, ehStdout, elErr>>

ehInit ==
    /\ ehOp = "none"
    /\ ehArgs = [none |-> TRUE]
    /\ ehResult = NilError
    /\ ehStdout = <<>>
    /\ elPc = "idle"
    /\ elErr = NilError
    /\ elDeferred = <<>>
    /\ elStdout = <<>>

ehNext ==
    \/ \E name \in ClientNames, age \in ClientAges : CallValidateClient(name, age)
    \/ \E a \in Operands, b \in Operands : CallDivide(a, b)
    \/ ExampleHandllingDbError
    \/ LoggingErrorsDeclare
    \/ LoggingErrorsDefer
    \/ LoggingErrorsAssign
    \/ LoggingErrorsReturn

(***************************************************************************)
(* The whole file                                                          *)
(***************************************************************************)
Programs ==
    {"RateLimiter", "TestDeadlock", "TestAtomacity", "TestSemaphoreWithChannels",
     "NumberIterator", "TestForkJoin", "TestParrentControl", "errorhandling"}

Init ==
    /\ prog \in Programs
    /\ rlInit
    /\ tdInit
    /\ taInit
    /\ swInit
    /\ niInit
    /\ rqInit
    /\ fjInit
    /\ ctlInit
    /\ ehInit

Next ==
    \/ rlNext
    \/ tdNext
    \/ taNext
    \/ swNext
    \/ niNext
    \/ fjNext
    \/ ctlNext
    \/ ehNext

Spec == Init /\ [][Next]_vars

\* NumberIterator with goroutines that send response channels on
\* ni.requests.  A started goroutine keeps running (Run, GoRun); a requester
\* may stop at any point.
ChannelCapacities == {0, 1}

InitRequests == Init /\ prog = "NumberIterator"

NextRequests ==
    \/ \E c \in CallerContexts : NumberIteratorNext(c)
    \/ GoRun
    \/ Run
    \/ CancelCtx
    \/ \E r \in Requesters, cap \in ChannelCapacities : RequesterSend(r, cap)
    \/ \E r \in Requesters : RequesterGiveUp(r)
    \/ \E r \in Requesters : RequesterReceive(r)

FairSpecRequests ==
    InitRequests /\ [][NextRequests]_vars /\ WF_vars(Run) /\ WF_vars(GoRun)

(***************************************************************************)
(* Claims                                                                  *)
(***************************************************************************)

\* C1: between two resets of the counter (or from creation on) at most
\* capacity calls to Allow return true, however many calls follow.
C1_AtMostCapacityGranted ==
    prog = "RateLimiter" => rlGranted <= rlCapacity

\* C2: after the capacity is exhausted and Allow has returned false, the first
\* Allow after a refill interval has passed returns true.
C2_RefillsItself ==
    (prog = "RateLimiter" /\ rlLastAfterSleep) => rlLast = "allowed"

\* C3: with the two lock orders (fork, spoon) and (spoon, fork), TestDeadlock
\* never gives up: it ends only with both results received.
C3_BothResultsReceived ==
    (prog = "TestDeadlock" /\ tdPc \in {"fatal", "done"}) => Len(tdResults) = ExpectedResults

\* C4: after wg.Wait() has returned, counter equals the number of goroutines.
C4_CounterEqualsN ==
    (prog = "TestAtomacity" /\ taPc \in {"check", "done"}) => taCounter = NumIncrements

\* C5: no worker of TestSemaphoreWithChannels gets more than 3 from c.Add(1):
\* at most 3 workers are between c.Add(1) and c.Add(-1) at a time.
C5_AtMostThreeInside ==
    prog = "TestSemaphoreWithChannels" =>
        /\ \A w \in Workers : swVal[w] <= ConcurrencyLimit
        /\ Cardinality({w \in Workers : swW[w] \in {"sleep", "check", "release"}})
              <= ConcurrencyLimit

\* C6: while Run's loop is running and the contexts are live, the k-th call of
\* Next returns the number k and a nil error.
C6_NextCountsUp ==
    prog = "NumberIterator" =>
        \A k \in 1..Len(niCalls) :
            (\A j \in 1..k : ~niCalls[j].ctxDone /\ niCalls[j].running)
                => (niCalls[k].num = k /\ niCalls[k].err = "nil")

\* C7: a call of Next with a context that is already cancelled returns 0 and
\* context.Canceled.
C7_CancelledNextReturnsCanceled ==
    prog = "NumberIterator" =>
        \A k \in 1..Len(niCalls) :
            niCalls[k].ctxDone => (niCalls[k].num = 0 /\ niCalls[k].err = "Canceled")

\* C8: a first call of Next with a cancelled context returns context.Canceled,
\* and the call after it, with a live context, returns 2 and a nil error.
C8_NextAfterAbandonedRequest ==
    (/\ prog = "NumberIterator"
     /\ Len(niCalls) >= 2
     /\ niCalls[1].ctxDone /\ niCalls[1].running
     /\ ~niCalls[2].ctxDone /\ niCalls[2].running)
        => /\ niCalls[1].err = "Canceled"
           /\ niCalls[2].num = 2
           /\ niCalls[2].err = "nil"

\* C9: once the parent has called cancel, the child closes done without waiting
\* for its 10-second timer, and the parent's select ends on done.
C9_ParentStopsChild ==
    prog = "TestParrentControl" =>
        /\ ctlDoneClosed => ctlNow < ctlChildAt
        /\ ctlParentPc # "timeout"

\* C10: once the child of TestForkJoin has run, done is closed; the parent's
\* select never ends on the timeout.
C10_ChildIsJoined ==
    prog = "TestForkJoin" =>
        /\ fjChildPc = "exited" => fjDoneClosed
        /\ fjParentPc # "timeout"

\* C11: ValidateClient returns an error equal to nil for every valid client
\* (Name not empty, Age at least 18), and a non-nil error only otherwise.
C11_ValidClientGetsNil ==
    (prog = "errorhandling" /\ ehOp = "ValidateClient") =>
        (ErrIsNil(ehResult) <=> (ehArgs.name # "" /\ ehArgs.age >= AdultAge))

\* C12: at the exit of ExampleLoggingErrors the deferred logError logs the
\* error assigned to err after the defer statement, "something went wrong".
C12_DeferredLogSeesLaterError ==
    (prog = "errorhandling" /\ elPc = "done") =>
        elStdout = <<PrintlnError(ErrorsNew("something went wrong"))>>

\* C13: Divide(a, b) returns the quotient and a nil error when b is not zero,
\* and an error saying "division by zero" when b is zero; it never panics.
C13_DivideReportsZero ==
    (prog = "errorhandling" /\ ehOp = "Divide") =>
        /\ ~ehResult.panicked
        /\ IF ehArgs.b # 0
             THEN /\ ehResult.val = GoQuo(ehArgs.a, ehArgs.b)
                  /\ ErrIsNil(ehResult.err)
             ELSE ehResult.err.value = "division by zero"

\* C14: the error GetUsers returns is matched by errors.As in
\* ExampleHandllingDbError as a *pgconn.PgError, and the example prints its
\* message and its code.
C14_DbErrorIsRecognised ==
    (prog = "errorhandling" /\ ehOp = "ExampleHandllingDbError") =>
        /\ ErrorsAs(ehResult, PgErrorOfExample)
        /\ ehStdout = <<"relation \"users\" does not exist", "42P01">>

\* C15: once ni.ctx is cancelled, Run eventually returns, also when a
\* requester that sent a response channel has stopped waiting for the answer.
C15_RunReturnsAfterCancel == niCtxDone ~> (niRunPc = "returned")

\* The mutexes a call of EatPasta holds.
Held(e) == {c \in Mutexes : mtx[c] = e}

\* The first n of the cutlery arguments of a call.
FirstCutlery(e, n) == {Cutlery(e)[i] : i \in 1..n}

\* The calls whose result TestDeadlock has received.
Received == {tdResults[i] : i \in 1..Len(tdResults)}

\* C16: EatPasta locks its mutexes in argument order, holds all of them
\* while it sends its result, and unlocks only after the send has completed;
\* a call that has returned holds none, and a call whose result has not been
\* received has released nothing of what it locked.
C16_MutexesHeldUntilResultSent ==
    \A e \in Eaters :
        /\ epPc[e] = "lock" => Held(e) = FirstCutlery(e, epIdx[e])
        /\ epPc[e] = "sleep" => Held(e) = FirstCutlery(e, epIdx[e] + 1)
        /\ epPc[e] = "send" => Held(e) = FirstCutlery(e, Len(Cutlery(e)))
        /\ epPc[e] \in {"lock", "sleep", "send"} <=> e \notin Received
        /\ epPc[e] = "unlock" => Held(e) \subseteq FirstCutlery(e, Len(Cutlery(e)))
        /\ epPc[e] = "returned" => Held(e) = {}

\* One call has sent its result and returned with nothing held, and the other
\* holds both mutexes at its send.
C16_Witness ==
    \E e \in Eaters, o \in Eaters :
        /\ e # o
        /\ epPc[e] = "returned"
        /\ e \in Received
        /\ Held(e) = {}
        /\ epPc[o] = "send"
        /\ Held(o) = Mutexes

====
